---- MODULE Spec2Model ----
(***************************************************************************)
(* A model of sider's server (src/server/server.go): the streaming         *)
(* protocol reader (CommandReader, readBufferedCommand,                    *)
(* readBufferedTelnetCommand, parseArgsFromTelnetLine), the connection     *)
(* handler with the keyspace lock, the staging buffer and the log file,    *)
(* and the startup replay of the log.                                      *)
(*                                                                         *)
(* A byte is a one-character string; a []byte or a Go string is a sequence *)
(* of bytes.  Go indexes from 0: At and Slice translate.                   *)
(***************************************************************************)
EXTENDS Integers, Sequences, FiniteSets, TLC

\* ------------------------------------------------------------------ bytes

CR == "\r"
LF == "\n"
SP == " "
QT == "\""

\* data[i]
At(data, i) == data[i + 1]

\* data[lo:hi], for 0 <= lo <= hi <= len(data)
Slice(data, lo, hi) == SubSeq(data, lo + 1, hi)

\* Go panics on data[lo:hi] unless 0 <= lo <= hi <= len(data) (no slice of
\* the model is taken beyond its length where the capacity would allow it)
SliceOK(data, lo, hi) == 0 <= lo /\ lo <= hi /\ hi <= Len(data)

Min(a, b) == IF a < b THEN a ELSE b

IsPrefix(s, t) == Len(s) <= Len(t) /\ SubSeq(t, 1, Len(s)) = s

\* ------------------------------------------------------- machine integers

\* The width of int, int64 and uint64 in the model.  The code runs with 64
\* bits; the model keeps the same wrap-around arithmetic at a width whose
\* values the model's requests can spell.
IntBits == 7

RECURSIVE Pow2(_)
Pow2(n) == IF n = 0 THEN 1 ELSE 2 * Pow2(n - 1)

UintMod == Pow2(IntBits)
MaxInt == Pow2(IntBits - 1) - 1
MaxUint == UintMod - 1

\* uint64 arithmetic wraps
WrapUint(x) == x % UintMod

\* int(x): the two's complement reading of the low bits
ToInt(x) == IF WrapUint(x) > MaxInt THEN WrapUint(x) - UintMod ELSE WrapUint(x)

Digits == <<"0", "1", "2", "3", "4", "5", "6", "7", "8", "9">>

IsDigit(b) == \E d \in 1..10 : Digits[d] = b

DigitVal(b) == (CHOOSE d \in 1..10 : Digits[d] = b) - 1

\* the value of a digit string, saturating just above the largest unsigned
\* value (strconv reports a range error from there on)
RECURSIVE DecValue(_, _)
DecValue(s, acc) ==
    IF s = <<>> THEN acc
    ELSE DecValue(Tail(s), Min(acc * 10 + DigitVal(Head(s)), UintMod))

AllDigits(s) == \A k \in 1..Len(s) : IsDigit(s[k])

\* strconv.ParseUint(s, 10, 64): digits only, no sign
ParseUint(s) ==
    IF s = <<>> \/ ~AllDigits(s) THEN [ok |-> FALSE, val |-> 0]
    ELSE LET v == DecValue(s, 0)
         IN  IF v > MaxUint THEN [ok |-> FALSE, val |-> 0]
             ELSE [ok |-> TRUE, val |-> v]

\* strconv.ParseInt(s, 10, 64): an optional sign, then digits
ParseInt(s) ==
    LET signed == s # <<>> /\ Head(s) \in {"+", "-"}
        neg == s # <<>> /\ Head(s) = "-"
        ds == IF signed THEN Tail(s) ELSE s
    IN  IF ds = <<>> \/ ~AllDigits(ds) THEN [ok |-> FALSE, val |-> 0]
        ELSE LET v == DecValue(ds, 0)
             IN  IF (~neg /\ v > MaxInt) \/ (neg /\ v > MaxInt + 1)
                 THEN [ok |-> FALSE, val |-> 0]
                 ELSE [ok |-> TRUE, val |-> IF neg THEN 0 - v ELSE v]

\* strconv.FormatUint, to spell the lengths the requests declare
RECURSIVE Itoa(_)
Itoa(n) == IF n < 10 THEN <<Digits[n + 1]>> ELSE Itoa(n \div 10) \o <<Digits[(n % 10) + 1]>>

\* --------------------------------------------------------- parse outcomes

\* what readBufferedCommand returns: a command (raw, args), a request for
\* more data (nil, nil, nil error), a protocolError, or a run-time panic
Cmd(raw, args, telnet) ==
    [kind |-> "cmd", raw |-> raw, args |-> args, telnet |-> telnet, msg |-> <<>>]
More(telnet) ==
    [kind |-> "more", raw |-> <<>>, args |-> <<>>, telnet |-> telnet, msg |-> <<>>]
ProtoErr(msg, telnet) ==
    [kind |-> "err", raw |-> <<>>, args |-> <<>>, telnet |-> telnet, msg |-> msg]
Panic(telnet) ==
    [kind |-> "panic", raw |-> <<>>, args |-> <<>>, telnet |-> telnet, msg |-> <<>>]

\* protocolError.Error()
ErrorText(msg) == <<"Protocol error: ">> \o msg

\* the index of the first '\n' at or after i, or len(data) when there is none
RECURSIVE FirstLF(_, _)
FirstLF(data, i) ==
    IF i >= Len(data) THEN Len(data)
    ELSE IF At(data, i) = LF THEN i
    ELSE FirstLF(data, i + 1)

\* ------------------------------------------------- inline (telnet) framing

ArgsOK(args) == [kind |-> "ok", args |-> args, msg |-> <<>>]
ArgsErr(msg) == [kind |-> "err", args |-> <<>>, msg |-> msg]
ArgsPanic == [kind |-> "panic", args |-> <<>>, msg |-> <<>>]

UnbalancedQuotes == <<"unbalanced quotes in request">>

\* the loop of parseArgsFromTelnetLine over line[i]; st holds its locals
RECURSIVE parseArgsLoop(_, _)
parseArgsLoop(line, st) ==
    IF st.i >= Len(line)
    THEN IF st.quote THEN ArgsErr(UnbalancedQuotes)
         ELSE IF st.s < Len(line)
              THEN ArgsOK(Append(st.args, Slice(line, st.s, Len(line))))
              ELSE ArgsOK(st.args)
    ELSE LET b == At(line, st.i)
             next == [st EXCEPT !.i = st.i + 1]
         IN  CASE b = QT ->
                    IF st.quote
                    THEN IF ~SliceOK(line, st.s + 1, st.i) THEN ArgsPanic
                         ELSE parseArgsLoop(line,
                                [next EXCEPT !.args = Append(st.args, Slice(line, st.s + 1, st.i)),
                                             !.quote = FALSE,
                                             !.s = st.i + 1,
                                             !.lquote = TRUE])
                    ELSE IF ~st.lspace THEN ArgsErr(UnbalancedQuotes)
                    ELSE parseArgsLoop(line, [next EXCEPT !.lspace = FALSE, !.quote = TRUE])
               [] b = SP ->
                    IF st.lquote
                    THEN parseArgsLoop(line, [next EXCEPT !.s = st.s + 1])
                    ELSE IF ~SliceOK(line, st.s, st.i) THEN ArgsPanic
                    ELSE parseArgsLoop(line,
                           [next EXCEPT !.args = Append(st.args, Slice(line, st.s, st.i)),
                                        !.s = st.i + 1,
                                        !.lspace = TRUE])
               [] OTHER -> parseArgsLoop(line, [next EXCEPT !.lspace = FALSE])

parseArgsFromTelnetLine(line) ==
    parseArgsLoop(line, [i |-> 0, s |-> 0, lspace |-> TRUE, quote |-> FALSE,
                         lquote |-> FALSE, args |-> <<>>])

readBufferedTelnetCommand(data) ==
    LET i == FirstLF(data, 1)
    IN  IF i >= Len(data) THEN More(TRUE)
        ELSE LET line == IF At(data, i - 1) = CR THEN Slice(data, 0, i - 1)
                         ELSE Slice(data, 0, i)
             IN  IF Len(line) = 0 THEN Cmd(Slice(data, 0, i + 1), <<>>, TRUE)
                 ELSE LET r == parseArgsFromTelnetLine(line)
                      IN  CASE r.kind = "err" -> ProtoErr(r.msg, TRUE)
                            [] r.kind = "panic" -> Panic(TRUE)
                            [] OTHER -> Cmd(Slice(data, 0, i + 1), r.args, TRUE)

\* ------------------------------------------------------ multibulk framing

InvalidMultibulkLength == <<"invalid multibulk length">>
InvalidBulkLength == <<"invalid bulk length">>
ExpectedDollar(b) == <<"expected '$', got '", b, "'">>

\* int(n2 + 2), the uint64 sum wrapping before the conversion
BulkNeed(n2) == ToInt(WrapUint(n2 + 2))

\* i + int(n2) and i + int(n2 + 2), in int arithmetic
IntAdd(a, b) == ToInt(a + b + UintMod)

\* the body of `for j := int64(0); j < n; j++` of readBufferedCommand, at
\* byte i with j arguments read
RECURSIVE readBulks(_, _, _, _, _)
readBulks(data, i, j, n, args) ==
    IF j >= n THEN More(FALSE)
    ELSE IF i = Len(data) THEN More(FALSE)
    ELSE IF At(data, i) # "$" THEN ProtoErr(ExpectedDollar(At(data, i)), FALSE)
    ELSE LET ii == i + 1
             k == FirstLF(data, i)
         IN  IF k >= Len(data) THEN More(FALSE)
             ELSE IF At(data, k - 1) # CR THEN ProtoErr(InvalidBulkLength, FALSE)
             ELSE LET n2 == ParseUint(Slice(data, ii, k - 1))
                      i2 == k + 1
                  IN  IF ~n2.ok THEN ProtoErr(InvalidBulkLength, FALSE)
                      ELSE IF Len(data) - i2 < BulkNeed(n2.val) THEN More(FALSE)
                      ELSE LET hi == IntAdd(i2, ToInt(n2.val))
                               i3 == IntAdd(i2, BulkNeed(n2.val))
                           IN  IF ~SliceOK(data, i2, hi) THEN Panic(FALSE)
                               ELSE IF j = n - 1
                               THEN IF ~SliceOK(data, 0, i3) THEN Panic(FALSE)
                                    ELSE Cmd(Slice(data, 0, i3),
                                             Append(args, Slice(data, i2, hi)), FALSE)
                               ELSE IF i3 > Len(data) \/ i3 < 0 THEN Panic(FALSE)
                               ELSE readBulks(data, i3, j + 1, n,
                                              Append(args, Slice(data, i2, hi)))

readBufferedCommand(data) ==
    IF At(data, 0) # "*" THEN readBufferedTelnetCommand(data)
    ELSE LET i == FirstLF(data, 1)
         IN  IF i >= Len(data) THEN More(FALSE)
             ELSE IF At(data, i - 1) # CR THEN ProtoErr(InvalidMultibulkLength, FALSE)
             ELSE LET n == ParseInt(Slice(data, 1, i - 1))
                  IN  IF ~n.ok THEN ProtoErr(InvalidMultibulkLength, FALSE)
                      ELSE IF n.val <= 0 THEN Cmd(Slice(data, 0, i + 1), <<>>, FALSE)
                      ELSE readBulks(data, i + 1, 0, n.val, <<>>)

\* ---------------------------------------------------------- CommandReader

\* a CommandReader's buf and copied (rbuf is the scratch array every Read
\* fills; buf aliases it until copied)
NewReader == [buf |-> <<>>, copied |-> FALSE]

Returned(raw, args, flush, rd) ==
    [kind |-> "cmd", raw |-> raw, args |-> args, flush |-> flush, msg |-> <<>>, rd |-> rd]
Failed(msg, rd) ==
    [kind |-> "err", raw |-> <<>>, args |-> <<>>, flush |-> FALSE, msg |-> msg, rd |-> rd]
Panicked(rd) ==
    [kind |-> "panic", raw |-> <<>>, args |-> <<>>, flush |-> FALSE, msg |-> <<>>, rd |-> rd]
NeedRead(rd) ==
    [kind |-> "read", raw |-> <<>>, args |-> <<>>, flush |-> FALSE, msg |-> <<>>, rd |-> rd]

\* the flush flag of a command that leaves bytes in the buffer
FlushWhenMoreBuffered(rd) == rd.copied

\* a reader that loses the byte after a command
RestOfBufferSkipsByte(buf, rawlen) == Slice(buf, rawlen + 1, Len(buf))

\* what is left in the buffer after a command of rawlen bytes
RestOfBuffer(buf, rawlen) == Slice(buf, rawlen, Len(buf))

\* ReadCommand up to its rd.rd.Read: returns a command or an error from the
\* buffered bytes, or reaches the read having copied a shared buffer
ReadCommandBuffered(rd) ==
    IF Len(rd.buf) > 0
    THEN LET r == readBufferedCommand(rd.buf)
         IN  CASE r.kind = "err" -> Failed(r.msg, rd)
               [] r.kind = "panic" -> Panicked(rd)
               [] r.kind = "cmd" /\ Len(r.raw) = Len(rd.buf) ->
                    Returned(r.raw, r.args, TRUE, [rd EXCEPT !.buf = <<>>])
               [] r.kind = "cmd" /\ Len(r.raw) > 0 ->
                    Returned(r.raw, r.args, FlushWhenMoreBuffered(rd),
                             [rd EXCEPT !.buf = RestOfBuffer(rd.buf, Len(r.raw))])
               [] OTHER -> NeedRead([rd EXCEPT !.copied = TRUE])
    ELSE NeedRead(rd)

\* a Read that forgets the bytes pending in the buffer
ReadDeliveredDropsPending(rd, chunk) == [buf |-> chunk, copied |-> FALSE]

\* ReadCommand after a Read that delivered the bytes of chunk
ReadDelivered(rd, chunk) ==
    IF Len(rd.buf) = 0
    THEN [buf |-> chunk, copied |-> FALSE]
    ELSE [buf |-> rd.buf \o chunk, copied |-> TRUE]

\* what one ReadCommand call hands its caller
Result(r) == [raw |-> r.raw, args |-> r.args, flush |-> r.flush]

\* successive ReadCommand calls on a source whose first Read delivers all of
\* src and whose next Read reports io.EOF (a file, or a peer that sent
\* everything at once and closed): the commands returned, and how it ended
RECURSIVE ReadAll(_, _, _)
ReadAll(rd, src, out) ==
    LET r == ReadCommandBuffered(rd)
    IN  CASE r.kind = "cmd" -> ReadAll(r.rd, src, Append(out, Result(r)))
          [] r.kind = "err" -> [out |-> out, end |-> "err", msg |-> r.msg]
          [] r.kind = "panic" -> [out |-> out, end |-> "panic", msg |-> <<>>]
          [] OTHER -> IF src = <<>> THEN [out |-> out, end |-> "EOF", msg |-> <<>>]
                      ELSE ReadAll(ReadDelivered(r.rd, src), <<>>, out)

\* ------------------------------------------------------------- the state

VARIABLES
    rinput,     \* the bytes the source will deliver in all
    rpos,       \* how many of them the Reads so far delivered
    rrd,        \* the CommandReader
    rout,       \* what the ReadCommand calls so far returned
    rmsg,       \* the protocol error that ended the run, if one did
    rpieces,    \* how many Reads delivered bytes
    rpc         \* "ReadCommand", "Read" (inside rd.rd.Read), or how it ended

readerVars == <<rinput, rpos, rrd, rout, rmsg, rpieces, rpc>>

VARIABLES
    keys,       \* Server.keys
    mu,         \* Server.mu: the writer holding it (at most one), and the readers
    aofmu,      \* Server.aofmu: who holds it
    aofmem,     \* the array behind Server.aofbuf
    aoflen,     \* Server.aofbuf.Len()
    aof,        \* the bytes of the log file
    crashed,    \* a panic ended the process
    syncpc,     \* the ticker goroutine of Start
    pc,         \* where each handleConn stands
    rd,         \* each connection's CommandReader
    cur,        \* raw, args, flush of the command ReadCommand returned
    wr,         \* each connection's bufio.Writer: replies not yet flushed
    sent,       \* the replies written to each socket
    b,          \* the slice a flush took from aofbuf, until written
    nreads,     \* Reads that delivered bytes so far
    exec,       \* history: the write commands whose handler ran, in order
    staged,     \* history: the commands appended to aofbuf, in order
    logged      \* history: the commands of the slices written to the file, in order

VARIABLES
    startpc,    \* where Start stands: its replay loop, or listening
    startrd,    \* the CommandReader Start runs over the log file
    startoff,   \* the offset of the log file: the bytes Start has read
    startcur,   \* the command the replay loop decoded last
    read        \* Start's count of replayed commands

replayVars == <<startpc, startrd, startoff, startcur, read>>

\* the variables of the reader fed in pieces and of Start
otherVars == <<readerVars, replayVars>>

serverVars == <<keys, mu, aofmu, aofmem, aoflen, aof, crashed, syncpc, pc, rd, cur,
                wr, sent, b, nreads, exec, staged, logged>>

\* ------------------------------------------------- a reader fed in pieces

\* in how many Reads at most the source delivers its bytes
MaxPieces == 3

\* the caller calls ReadCommand, or ReadCommand calls itself after a Read
RdReadCommand ==
    /\ rpc = "ReadCommand"
    /\ LET r == ReadCommandBuffered(rrd)
       IN  /\ rrd' = r.rd
           /\ rout' = IF r.kind = "cmd" THEN Append(rout, Result(r)) ELSE rout
           /\ rmsg' = r.msg
           /\ rpc' = CASE r.kind = "cmd" -> "ReadCommand"
                       [] r.kind = "read" -> "Read"
                       [] OTHER -> r.kind
    /\ UNCHANGED <<rinput, rpos, rpieces>>
    /\ UNCHANGED <<serverVars, replayVars>>

\* the source delivers the next n bytes (the last piece delivers the rest)
RdRead ==
    /\ rpc = "Read"
    /\ rpos < Len(rinput)
    /\ \E n \in 1..(Len(rinput) - rpos) :
          /\ rpieces + 1 = MaxPieces => n = Len(rinput) - rpos
          /\ rrd' = ReadDelivered(rrd, Slice(rinput, rpos, rpos + n))
          /\ rpos' = rpos + n
    /\ rpieces' = rpieces + 1
    /\ rpc' = "ReadCommand"
    /\ UNCHANGED <<rinput, rout, rmsg>>
    /\ UNCHANGED <<serverVars, replayVars>>

\* the source is exhausted: Read reports io.EOF
RdEOF ==
    /\ rpc = "Read"
    /\ rpos = Len(rinput)
    /\ rpc' = "EOF"
    /\ UNCHANGED <<rinput, rpos, rrd, rout, rmsg, rpieces>>
    /\ UNCHANGED <<serverVars, replayVars>>

\* ------------------------------------------------- registry and keyspace

Upper == <<"A", "B", "C", "D", "E", "F", "G", "H", "I", "J", "K", "L", "M",
           "N", "O", "P", "Q", "R", "S", "T", "U", "V", "W", "X", "Y", "Z">>
Lower == <<"a", "b", "c", "d", "e", "f", "g", "h", "i", "j", "k", "l", "m",
           "n", "o", "p", "q", "r", "s", "t", "u", "v", "w", "x", "y", "z">>

LowerByte(ch) ==
    IF \E k \in 1..26 : Upper[k] = ch THEN Lower[CHOOSE k \in 1..26 : Upper[k] = ch]
    ELSE ch

\* a dispatch that forgets to fold the case
ToLowerForgotten(str) == str

\* strings.ToLower
ToLower(str) == [k \in 1..Len(str) |-> LowerByte(str[k])]

NameGet == <<"g", "e", "t">>
NameSet == <<"s", "e", "t">>
NameDel == <<"d", "e", "l">>
NameQuit == <<"q", "u", "i", "t">>
NamePing == <<"p", "i", "n", "g">>

\* Server.register: the access flags the option letters leave in a Command
RECURSIVE register(_, _)
register(opts, cmd) ==
    IF opts = <<>> THEN cmd
    ELSE register(Tail(opts),
           CASE Head(opts) = "r" -> IF ~cmd.Write THEN [cmd EXCEPT !.Read = TRUE] ELSE cmd
             [] Head(opts) = "w" -> [cmd EXCEPT !.Write = TRUE, !.Read = FALSE]
             [] OTHER -> cmd)

\* Server.commandTable: s.commands after construction
commandTable ==
    (NameGet :> register(<<"r">>, [Write |-> FALSE, Read |-> FALSE, Func |-> "get"]))
    @@ (NameSet :> register(<<"w">>, [Write |-> FALSE, Read |-> FALSE, Func |-> "set"]))
    @@ (NameDel :> register(<<"w">>, [Write |-> FALSE, Read |-> FALSE, Func |-> "del"]))

\* the keyspace: a function from the names held to their values
NoKeys == <<>>

GetKey(ks, name) ==
    IF name \in DOMAIN ks THEN [found |-> TRUE, value |-> ks[name]]
    ELSE [found |-> FALSE, value |-> <<>>]

SetKey(ks, name, value) ==
    [n \in (DOMAIN ks) \cup {name} |-> IF n = name THEN value ELSE ks[n]]

DelKey(ks, name) == [n \in (DOMAIN ks) \ {name} |-> ks[n]]

\* the replies of Client (a protocol type, a text)
ReplyString(text) == [t |-> "+", text |-> text]
ReplyError(text) == [t |-> "-ERR", text |-> text]
ReplyBulk(text) == [t |-> "$", text |-> text]
ReplyNull == [t |-> "$-1", text |-> <<>>]
ReplyInt(n) == [t |-> ":", text |-> <<n>>]

UnknownCommand(name) == <<"unknown command '">> \o name \o <<"'">>
WrongArity(name) == <<"wrong number of arguments for '">> \o name \o <<"'">>

\* cmd.Func(c): the keyspace the handler leaves and its reply
RunFunc(func, ks, args) ==
    CASE func = "get" ->
            IF Len(args) # 2 THEN [keys |-> ks, reply |-> ReplyError(WrongArity(args[1]))]
            ELSE LET g == GetKey(ks, args[2])
                 IN  [keys |-> ks,
                      reply |-> IF g.found THEN ReplyBulk(g.value) ELSE ReplyNull]
      [] func = "set" ->
            IF Len(args) # 3 THEN [keys |-> ks, reply |-> ReplyError(WrongArity(args[1]))]
            ELSE [keys |-> SetKey(ks, args[2], args[3]), reply |-> ReplyString(<<"OK">>)]
      [] OTHER ->
            IF Len(args) # 2 THEN [keys |-> ks, reply |-> ReplyError(WrongArity(args[1]))]
            ELSE [keys |-> DelKey(ks, args[2]),
                  reply |-> ReplyInt(IF GetKey(ks, args[2]).found THEN 1 ELSE 0)]

\* ------------------------------------------------------------ the server

\* the connections the listener has accepted
NumConns == 2
Conns == 1..NumConns

\* how many Reads, over all connections, deliver bytes
MaxReads == 2

\* a Lock that does not wait for the readers, one that does not wait for a
\* writer
CanLockIgnoringReaders(m) == m.writer = {}
CanLockIgnoringWriter(m) == m.readers = {}

\* sync.RWMutex: Lock waits for no writer and no reader, RLock for no writer
CanLock(m) == m.writer = {} /\ m.readers = {}
CanRLock(m) == m.writer = {}

\* sync.Mutex
AofmuFree == [conns |-> {}, sync |-> FALSE]

\* aofbuf.Bytes()
AofbufBytes(mem, len) == SubSeq(mem, 1, len)

\* aofbuf.Write(p): the array after p is stored at the buffer's end
AofbufWriteMem(mem, len, p) ==
    SubSeq(mem, 1, len) \o p \o SubSeq(mem, len + Len(p) + 1, Len(mem))

NoCommand == [raw |-> <<>>, args |-> <<>>, flush |-> FALSE]
NoSlice == [len |-> 0, snap |-> <<>>, cmds |-> <<>>]

\* history: the last staged commands, whose bytes make up the len bytes the
\* staging buffer holds
RECURSIVE StagedInBuffer(_, _)
StagedInBuffer(st, len) ==
    IF len <= 0 \/ st = <<>> THEN <<>>
    ELSE Append(StagedInBuffer(SubSeq(st, 1, Len(st) - 1), len - Len(st[Len(st)].raw)),
                st[Len(st)])

\* after the switch of handleConn: the flush of line 193, or the next command
AfterCommand(flush) == IF flush THEN "FlushLock" ELSE "ReadCommand"

\* a handler that forgets the return of line 161
AfterReadCommandNoReturn(r) ==
    CASE r.kind = "cmd" -> IF Len(r.args) = 0 THEN "ReadCommand" ELSE "Dispatch"
      [] r.kind = "err" -> "ReadCommand"
      [] r.kind = "read" -> "Read"
      [] OTHER -> "Panic"

\* lines 157-165: where handleConn goes with what ReadCommand gave it (a
\* command with no arguments is skipped; ReadCommand itself blocks in Read)
AfterReadCommand(r) ==
    CASE r.kind = "cmd" -> IF Len(r.args) = 0 THEN "ReadCommand" ELSE "Dispatch"
      [] r.kind = "err" -> "Return"
      [] r.kind = "read" -> "Read"
      [] OTHER -> "Panic"

\* rd.ReadCommand() and lines 157-165 of handleConn
ConnReadCommand(c) ==
    /\ ~crashed
    /\ pc[c] = "ReadCommand"
    /\ LET r == ReadCommandBuffered(rd[c])
       IN  /\ rd' = [rd EXCEPT ![c] = r.rd]
           /\ crashed' = (r.kind = "panic")
           /\ cur' = IF r.kind = "cmd" THEN [cur EXCEPT ![c] = Result(r)] ELSE cur
           /\ wr' = IF r.kind = "err"
                    THEN [wr EXCEPT ![c] = Append(@, ReplyError(ErrorText(r.msg)))]
                    ELSE wr
           /\ pc' = [pc EXCEPT ![c] = AfterReadCommand(r)]
    /\ UNCHANGED <<keys, mu, aofmu, aofmem, aoflen, aof, syncpc, sent, b, nreads,
                   exec, staged>>
    /\ UNCHANGED <<logged, otherVars>>

\* the dispatch of lines 166-192, up to the lock
ConnDispatch(c) ==
    /\ ~crashed
    /\ pc[c] = "Dispatch"
    /\ LET args == cur[c].args
           command == ToLower(args[1])
       IN  CASE command = NameQuit ->
                  /\ wr' = [wr EXCEPT ![c] = Append(@, ReplyString(<<"OK">>))]
                  /\ pc' = [pc EXCEPT ![c] = "Return"]
             [] command = NamePing ->
                  /\ wr' = [wr EXCEPT ![c] = Append(@, ReplyString(<<"PONG">>))]
                  /\ pc' = [pc EXCEPT ![c] = AfterCommand(cur[c].flush)]
             [] command \in DOMAIN commandTable ->
                  /\ wr' = wr
                  /\ pc' = [pc EXCEPT ![c] =
                              IF commandTable[command].Write THEN "Lock"
                              ELSE IF commandTable[command].Read THEN "RLock"
                              ELSE "Func"]
             [] OTHER ->
                  /\ wr' = [wr EXCEPT ![c] = Append(@, ReplyError(UnknownCommand(args[1])))]
                  /\ pc' = [pc EXCEPT ![c] = AfterCommand(cur[c].flush)]
    /\ UNCHANGED <<keys, mu, aofmu, aofmem, aoflen, aof, crashed, syncpc, rd, cur, sent,
                   b, nreads, exec, staged>>
    /\ UNCHANGED <<logged, otherVars>>

\* server.mu.Lock() of line 178
ConnLock(c) ==
    /\ ~crashed
    /\ pc[c] = "Lock"
    /\ CanLock(mu)
    /\ mu' = [mu EXCEPT !.writer = {c}]
    /\ pc' = [pc EXCEPT ![c] = "Func"]
    /\ UNCHANGED <<keys, aofmu, aofmem, aoflen, aof, crashed, syncpc, rd, cur, wr, sent,
                   b, nreads, exec, staged>>
    /\ UNCHANGED <<logged, otherVars>>

\* server.mu.RLock() of line 180
ConnRLock(c) ==
    /\ ~crashed
    /\ pc[c] = "RLock"
    /\ CanRLock(mu)
    /\ mu' = [mu EXCEPT !.readers = @ \cup {c}]
    /\ pc' = [pc EXCEPT ![c] = "Func"]
    /\ UNCHANGED <<keys, aofmu, aofmem, aoflen, aof, crashed, syncpc, rd, cur, wr, sent,
                   b, nreads, exec, staged>>
    /\ UNCHANGED <<logged, otherVars>>

\* where the handler's return leads: the append of line 184 or line 187
AfterFunc(cmd, flush) ==
    IF cmd.Write THEN "AofbufWrite" ELSE IF cmd.Read THEN "RUnlock" ELSE AfterCommand(flush)

\* cmd.Func(c) of line 182
ConnFunc(c) ==
    /\ ~crashed
    /\ pc[c] = "Func"
    /\ LET cmd == commandTable[ToLower(cur[c].args[1])]
           r == RunFunc(cmd.Func, keys, cur[c].args)
       IN  /\ keys' = r.keys
           /\ wr' = [wr EXCEPT ![c] = Append(@, r.reply)]
           /\ exec' = IF cmd.Write THEN Append(exec, [conn |-> c, raw |-> cur[c].raw])
                      ELSE exec
           /\ pc' = [pc EXCEPT ![c] = AfterFunc(cmd, cur[c].flush)]
    /\ UNCHANGED <<mu, aofmu, aofmem, aoflen, aof, crashed, syncpc, rd, cur, sent, b,
                   nreads, staged>>
    /\ UNCHANGED <<logged, otherVars>>

\* server.aofbuf.Write(c.raw) of line 184
ConnAofbufWrite(c) ==
    /\ ~crashed
    /\ pc[c] = "AofbufWrite"
    /\ aofmem' = AofbufWriteMem(aofmem, aoflen, cur[c].raw)
    /\ aoflen' = aoflen + Len(cur[c].raw)
    /\ staged' = Append(staged, [conn |-> c, raw |-> cur[c].raw])
    /\ pc' = [pc EXCEPT ![c] = "Unlock"]
    /\ UNCHANGED <<keys, mu, aofmu, aof, crashed, syncpc, rd, cur, wr, sent, b, nreads,
                   exec>>
    /\ UNCHANGED <<logged, otherVars>>

\* server.mu.Unlock() of line 185
ConnUnlock(c) ==
    /\ ~crashed
    /\ pc[c] = "Unlock"
    /\ mu' = [mu EXCEPT !.writer = {}]
    /\ pc' = [pc EXCEPT ![c] = AfterCommand(cur[c].flush)]
    /\ UNCHANGED <<keys, aofmu, aofmem, aoflen, aof, crashed, syncpc, rd, cur, wr, sent,
                   b, nreads, exec, staged>>
    /\ UNCHANGED <<logged, otherVars>>

\* server.mu.RUnlock() of line 187
ConnRUnlock(c) ==
    /\ ~crashed
    /\ pc[c] = "RUnlock"
    /\ mu' = [mu EXCEPT !.readers = @ \ {c}]
    /\ pc' = [pc EXCEPT ![c] = AfterCommand(cur[c].flush)]
    /\ UNCHANGED <<keys, aofmu, aofmem, aoflen, aof, crashed, syncpc, rd, cur, wr, sent,
                   b, nreads, exec, staged>>
    /\ UNCHANGED <<logged, otherVars>>

\* lines 194-198 and 205: the flush takes the lock and, when the buffer holds
\* bytes, takes b := aofbuf.Bytes() and resets the buffer
ConnFlushLock(c) ==
    /\ ~crashed
    /\ pc[c] = "FlushLock"
    /\ CanLock(mu)
    /\ mu' = [mu EXCEPT !.writer = {c}]
    /\ b' = [b EXCEPT ![c] = IF aoflen > 0
                             THEN [len |-> aoflen, snap |-> AofbufBytes(aofmem, aoflen),
                                   cmds |-> StagedInBuffer(staged, aoflen)]
                             ELSE NoSlice]
    /\ aoflen' = 0
    /\ pc' = [pc EXCEPT ![c] = "FlushUnlock"]
    /\ UNCHANGED <<keys, aofmu, aofmem, aof, crashed, syncpc, rd, cur, wr, sent, nreads,
                   exec, staged>>
    /\ UNCHANGED <<logged, otherVars>>

\* a flush that goes on to the file with the keyspace lock still held
ConnFlushUnlockKeepsLock(c) ==
    /\ ~crashed
    /\ pc[c] = "FlushUnlock"
    /\ pc' = [pc EXCEPT ![c] = IF b[c].len > 0 THEN "AofmuLock" ELSE "WrFlush"]
    /\ UNCHANGED <<keys, mu, aofmu, aofmem, aoflen, aof, crashed, syncpc, rd, cur, wr,
                   sent, b, nreads, exec, staged>>
    /\ UNCHANGED <<logged, otherVars>>

\* server.mu.Unlock() of line 198 or 205
ConnFlushUnlock(c) ==
    /\ ~crashed
    /\ pc[c] = "FlushUnlock"
    /\ mu' = [mu EXCEPT !.writer = {}]
    /\ pc' = [pc EXCEPT ![c] = IF b[c].len > 0 THEN "AofmuLock" ELSE "WrFlush"]
    /\ UNCHANGED <<keys, aofmu, aofmem, aoflen, aof, crashed, syncpc, rd, cur, wr, sent,
                   b, nreads, exec, staged>>
    /\ UNCHANGED <<logged, otherVars>>

\* server.aofmu.Lock() of line 199
ConnAofmuLock(c) ==
    /\ ~crashed
    /\ pc[c] = "AofmuLock"
    /\ aofmu = AofmuFree
    /\ aofmu' = [aofmu EXCEPT !.conns = {c}]
    /\ pc' = [pc EXCEPT ![c] = "AofWrite"]
    /\ UNCHANGED <<keys, mu, aofmem, aoflen, aof, crashed, syncpc, rd, cur, wr, sent, b,
                   nreads, exec, staged>>
    /\ UNCHANGED <<logged, otherVars>>

\* The bytes b reads at line 200.  b shares aofbuf's array, which writers
\* have been free to store into since the Reset of line 197: an
\* unsynchronised read, which sees the bytes taken or the bytes stored since.
SliceContents(s, mem) == {s.snap, SubSeq(mem, 1, s.len)}

\* server.aof.Write(b) succeeds, and line 203
ConnAofWrite(c) ==
    /\ ~crashed
    /\ pc[c] = "AofWrite"
    /\ \E bytes \in SliceContents(b[c], aofmem) : aof' = aof \o bytes
    /\ aofmu' = AofmuFree
    /\ b' = [b EXCEPT ![c] = NoSlice]
    /\ logged' = logged \o b[c].cmds
    /\ pc' = [pc EXCEPT ![c] = "WrFlush"]
    /\ UNCHANGED <<keys, mu, aofmem, aoflen, crashed, syncpc, rd, cur, wr, sent, nreads,
                   exec, staged>>
    /\ UNCHANGED otherVars

\* server.aof.Write(b) fails: panic(err) of line 201
ConnAofWriteFails(c) ==
    /\ ~crashed
    /\ pc[c] = "AofWrite"
    /\ crashed' = TRUE
    /\ pc' = [pc EXCEPT ![c] = "Panic"]
    /\ UNCHANGED <<keys, mu, aofmu, aofmem, aoflen, aof, syncpc, rd, cur, wr, sent, b,
                   nreads, exec, staged>>
    /\ UNCHANGED <<logged, otherVars>>

\* wr.Flush() of line 208 succeeds
ConnWrFlush(c) ==
    /\ ~crashed
    /\ pc[c] = "WrFlush"
    /\ sent' = [sent EXCEPT ![c] = @ \o wr[c]]
    /\ wr' = [wr EXCEPT ![c] = <<>>]
    /\ pc' = [pc EXCEPT ![c] = "ReadCommand"]
    /\ UNCHANGED <<keys, mu, aofmu, aofmem, aoflen, aof, crashed, syncpc, rd, cur, b,
                   nreads, exec, staged>>
    /\ UNCHANGED <<logged, otherVars>>

\* wr.Flush() of line 208 fails: return (the writer keeps its error, and the
\* deferred Flush fails with it)
ConnWrFlushFails(c) ==
    /\ ~crashed
    /\ pc[c] = "WrFlush"
    /\ pc' = [pc EXCEPT ![c] = "ReturnFailed"]
    /\ UNCHANGED <<keys, mu, aofmu, aofmem, aoflen, aof, crashed, syncpc, rd, cur, wr,
                   sent, b, nreads, exec, staged>>
    /\ UNCHANGED <<logged, otherVars>>

\* the deferred wr.Flush() and conn.Close() of lines 150-152
ConnReturn(c) ==
    /\ ~crashed
    /\ pc[c] \in {"Return", "ReturnFailed"}
    /\ \E ok \in {pc[c] = "Return", FALSE} :
          /\ sent' = [sent EXCEPT ![c] = IF ok THEN @ \o wr[c] ELSE @]
          /\ wr' = [wr EXCEPT ![c] = IF ok THEN <<>> ELSE @]
    /\ pc' = [pc EXCEPT ![c] = "Closed"]
    /\ UNCHANGED <<keys, mu, aofmu, aofmem, aoflen, aof, crashed, syncpc, rd, cur, b,
                   nreads, exec, staged>>
    /\ UNCHANGED <<logged, otherVars>>

\* ----------------------------------------------------- what the peers send

CRLF == <<CR, LF>>

\* the wire form of a bulk argument and of a multibulk request
Bulk(arg) == <<"$">> \o Itoa(Len(arg)) \o CRLF \o arg \o CRLF
RECURSIVE Bulks(_)
Bulks(args) == IF args = <<>> THEN <<>> ELSE Bulk(Head(args)) \o Bulks(Tail(args))
Multibulk(args) == <<"*">> \o Itoa(Len(args)) \o CRLF \o Bulks(args)

\* the bytes one Read of a socket may deliver
ChunkSet == Multibulk(<<NameSet, <<"x">>, <<"1">>>>)
ChunkSetUpper == <<"S", "E", "T", SP, "x", SP, "2", CR, LF>>
ChunkDel == <<"d", "e", "l", SP, "x", CR, LF>>
ChunkGet == <<"g", "e", "t", SP, "x", CR, LF>>
ChunkPingFooQuit ==
    <<"P", "I", "N", "G", CR, LF, "f", "o", "o", CR, LF, "Q", "u", "i", "t", CR, LF>>
ChunkMalformed == <<"*", "2", CR, LF, "$", "a", "b", "c", CR, LF>>
ChunkSetThenEmpty == <<"s", "e", "t", SP, "y", SP, "1", CR, LF, CR, LF>>
ChunkPingThenPartial == <<"p", "i", "n", "g", CR, LF, "g", "e", "t">>
ChunkRest == <<SP, "x", CR, LF>>

Chunks == {ChunkSet, ChunkSetUpper, ChunkDel, ChunkGet, ChunkPingFooQuit, ChunkMalformed,
           ChunkSetThenEmpty, ChunkPingThenPartial, ChunkRest}

\* n, err := rd.rd.Read(rd.rbuf) of line 260 delivers bytes
ConnRead(c) ==
    /\ ~crashed
    /\ pc[c] = "Read"
    /\ nreads < MaxReads
    /\ \E chunk \in Chunks : rd' = [rd EXCEPT ![c] = ReadDelivered(@, chunk)]
    /\ nreads' = nreads + 1
    /\ pc' = [pc EXCEPT ![c] = "ReadCommand"]
    /\ UNCHANGED <<keys, mu, aofmu, aofmem, aoflen, aof, crashed, syncpc, cur, wr, sent,
                   b, exec, staged>>
    /\ UNCHANGED <<logged, otherVars>>

\* the Read of line 260 fails (the peer closed): lines 261-263, then the
\* return of line 161 with no reply
ConnReadFails(c) ==
    /\ ~crashed
    /\ pc[c] = "Read"
    /\ pc' = [pc EXCEPT ![c] = "Return"]
    /\ UNCHANGED <<keys, mu, aofmu, aofmem, aoflen, aof, crashed, syncpc, rd, cur, wr,
                   sent, b, nreads, exec, staged>>
    /\ UNCHANGED <<logged, otherVars>>

\* the ticker goroutine: s.aofmu.Lock() of line 106
SyncLock ==
    /\ ~crashed
    /\ syncpc = "Tick"
    /\ aofmu = AofmuFree
    /\ aofmu' = [aofmu EXCEPT !.sync = TRUE]
    /\ syncpc' = "Sync"
    /\ UNCHANGED <<keys, mu, aofmem, aoflen, aof, crashed, pc, rd, cur, wr, sent, b,
                   nreads, exec, staged>>
    /\ UNCHANGED <<logged, otherVars>>

\* s.aof.Sync() and s.aofmu.Unlock() of lines 107-108
SyncUnlock ==
    /\ ~crashed
    /\ syncpc = "Sync"
    /\ aofmu' = AofmuFree
    /\ syncpc' = "Tick"
    /\ UNCHANGED <<keys, mu, aofmem, aoflen, aof, crashed, pc, rd, cur, wr, sent, b,
                   nreads, exec, staged>>
    /\ UNCHANGED <<logged, otherVars>>

ServerInit ==
    /\ keys = NoKeys
    /\ mu = [writer |-> {}, readers |-> {}]
    /\ aofmu = AofmuFree
    /\ aofmem = <<>>
    /\ aoflen = 0
    /\ aof = <<>>
    /\ crashed = FALSE
    /\ syncpc = "Tick"
    /\ pc = [c \in Conns |-> "ReadCommand"]
    /\ rd = [c \in Conns |-> NewReader]
    /\ cur = [c \in Conns |-> NoCommand]
    /\ wr = [c \in Conns |-> <<>>]
    /\ sent = [c \in Conns |-> <<>>]
    /\ b = [c \in Conns |-> NoSlice]
    /\ nreads = 0
    /\ exec = <<>>
    /\ staged = <<>>
    /\ logged = <<>>

ReaderIdle ==
    /\ rinput = <<>>
    /\ rpos = 0
    /\ rrd = NewReader
    /\ rout = <<>>
    /\ rmsg = <<>>
    /\ rpieces = 0
    /\ rpc = "idle"

\* ---------------------------------------------------- Start: the replay

\* len(rd.rbuf): make([]byte, 64*1024)
RbufSize == 65536

\* what a Read of the log file at offset off delivers
FileRead(file, off) == Slice(file, off, Min(Len(file), off + RbufSize))

\* lines 125-129: the keyspace after Start dispatches args (the name is
\* looked up as the log spells it; the reply goes to ioutil.Discard)
StartDispatchKeys(ks, args) ==
    IF args[1] \in DOMAIN commandTable
    THEN RunFunc(commandTable[args[1]].Func, ks, args).keys
    ELSE ks

\* the replay loop of lines 115-131 run to its end over file: how it ended
\* ("Listen": io.EOF broke the loop; "Fatal": log.Fatalf; "Panic"), the
\* keyspace, the count, and the bytes left undecoded in the reader
RECURSIVE ReplayLoop(_, _, _, _, _)
ReplayLoop(file, r0, off, ks, n) ==
    LET r == ReadCommandBuffered(r0)
    IN  CASE r.kind = "cmd" ->
               IF Len(r.args) = 0
               THEN [end |-> "Panic", keys |-> ks, read |-> n, left |-> r.rd.buf]
               ELSE ReplayLoop(file, r.rd, off, StartDispatchKeys(ks, r.args), n + 1)
          [] r.kind = "err" -> [end |-> "Fatal", keys |-> ks, read |-> n, left |-> r.rd.buf]
          [] r.kind = "panic" -> [end |-> "Panic", keys |-> ks, read |-> n, left |-> r.rd.buf]
          [] OTHER ->
               IF off >= Len(file)
               THEN [end |-> "Listen", keys |-> ks, read |-> n, left |-> r.rd.buf]
               ELSE ReplayLoop(file, ReadDelivered(r.rd, FileRead(file, off)),
                               off + Len(FileRead(file, off)), ks, n)

Replay(file) == ReplayLoop(file, NewReader, 0, NoKeys, 0)

\* rd.ReadCommand() of line 116 and lines 117-122
StartReadCommand ==
    /\ startpc = "ReadCommand"
    /\ LET r == ReadCommandBuffered(startrd)
       IN  /\ startrd' = r.rd
           /\ startcur' = IF r.kind = "cmd" THEN Result(r) ELSE startcur
           /\ startpc' = CASE r.kind = "cmd" -> "Dispatch"
                           [] r.kind = "err" -> "Fatal"
                           [] r.kind = "read" -> "Read"
                           [] OTHER -> "Panic"
    /\ UNCHANGED <<startoff, read>>
    /\ UNCHANGED <<serverVars, readerVars>>

\* the Read of line 260 on the log file delivers bytes
StartRead ==
    /\ startpc = "Read"
    /\ startoff < Len(aof)
    /\ startrd' = ReadDelivered(startrd, FileRead(aof, startoff))
    /\ startoff' = startoff + Len(FileRead(aof, startoff))
    /\ startpc' = "ReadCommand"
    /\ UNCHANGED <<startcur, read>>
    /\ UNCHANGED <<serverVars, readerVars>>

\* the Read reports io.EOF: the break of line 119, then lines 132-133
StartEOF ==
    /\ startpc = "Read"
    /\ startoff >= Len(aof)
    /\ startpc' = "Listen"
    /\ UNCHANGED <<startrd, startoff, startcur, read>>
    /\ UNCHANGED <<serverVars, readerVars>>

\* a replay that stages what it dispatches, as a live handler does
StartDispatchRelogs ==
    /\ startpc = "Dispatch"
    /\ IF Len(startcur.args) = 0
       THEN /\ startpc' = "Panic"
            /\ UNCHANGED <<keys, read, aofmem, aoflen>>
       ELSE /\ keys' = StartDispatchKeys(keys, startcur.args)
            /\ read' = read + 1
            /\ aofmem' = AofbufWriteMem(aofmem, aoflen, startcur.raw)
            /\ aoflen' = aoflen + Len(startcur.raw)
            /\ startpc' = "ReadCommand"
    /\ UNCHANGED <<startrd, startoff, startcur>>
    /\ UNCHANGED <<mu, aofmu, aof, crashed, syncpc, pc, rd, cur, wr,
                   sent, b, nreads, exec, staged, logged>>
    /\ UNCHANGED readerVars

\* lines 123-130 (args[0] of a command without arguments panics)
StartDispatch ==
    /\ startpc = "Dispatch"
    /\ IF Len(startcur.args) = 0
       THEN /\ startpc' = "Panic"
            /\ UNCHANGED <<keys, read>>
       ELSE /\ keys' = StartDispatchKeys(keys, startcur.args)
            /\ read' = read + 1
            /\ startpc' = "ReadCommand"
    /\ UNCHANGED <<startrd, startoff, startcur>>
    /\ UNCHANGED <<mu, aofmu, aofmem, aoflen, aof, crashed, syncpc, pc, rd, cur, wr,
                   sent, b, nreads, exec, staged, logged>>
    /\ UNCHANGED readerVars

\* what a log file may hold when the server starts: up to MaxLogFrames of
\* these, end to end
MaxLogFrames == 3

FrameTruncated == <<"s", "e", "t", SP, "y">>
FrameTruncatedBulk == <<"*", "2", CR, LF>> \o Bulk(NameDel) \o <<"$", "1", CR, LF>>
FrameNoCommand == <<"*", "0", CR, LF>>
FrameUnknown == <<"f", "o", "o", CR, LF>>

LogFrames == {ChunkSet, ChunkSetUpper, ChunkDel, FrameTruncated, FrameTruncatedBulk,
              ChunkMalformed, FrameNoCommand, FrameUnknown}

RECURSIVE FramesUpTo(_, _)
FramesUpTo(frames, n) ==
    IF n = 0 THEN {<<>>}
    ELSE FramesUpTo(frames, n - 1)
         \cup {f \o g : f \in frames, g \in FramesUpTo(frames, n - 1)}

Logs == FramesUpTo(LogFrames, MaxLogFrames)

ReplayDone ==
    /\ startpc = "Listen"
    /\ startrd = NewReader
    /\ startoff = 0
    /\ startcur = NoCommand
    /\ read = 0

vars == <<serverVars, readerVars, replayVars>>

\* the server listening over an empty log, its connections accepted
Init == ServerInit /\ ReaderIdle /\ ReplayDone

Next ==
    \/ \E c \in Conns : ConnReadCommand(c)
    \/ \E c \in Conns : ConnRead(c)
    \/ \E c \in Conns : ConnReadFails(c)
    \/ \E c \in Conns : ConnDispatch(c)
    \/ \E c \in Conns : ConnLock(c)
    \/ \E c \in Conns : ConnRLock(c)
    \/ \E c \in Conns : ConnFunc(c)
    \/ \E c \in Conns : ConnAofbufWrite(c)
    \/ \E c \in Conns : ConnUnlock(c)
    \/ \E c \in Conns : ConnRUnlock(c)
    \/ \E c \in Conns : ConnFlushLock(c)
    \/ \E c \in Conns : ConnFlushUnlock(c)
    \/ \E c \in Conns : ConnAofmuLock(c)
    \/ \E c \in Conns : ConnAofWrite(c)
    \/ \E c \in Conns : ConnAofWriteFails(c)
    \/ \E c \in Conns : ConnWrFlush(c)
    \/ \E c \in Conns : ConnWrFlushFails(c)
    \/ \E c \in Conns : ConnReturn(c)
    \/ SyncLock
    \/ SyncUnlock

Spec == Init /\ [][Next]_vars

\* Start over a log file left by an earlier run, before it listens
ReplayInit ==
    /\ aof \in Logs
    /\ keys = NoKeys
    /\ mu = [writer |-> {}, readers |-> {}]
    /\ aofmu = AofmuFree
    /\ aofmem = <<>>
    /\ aoflen = 0
    /\ crashed = FALSE
    /\ syncpc = "Tick"
    /\ pc = [c \in Conns |-> "Accept"]
    /\ rd = [c \in Conns |-> NewReader]
    /\ cur = [c \in Conns |-> NoCommand]
    /\ wr = [c \in Conns |-> <<>>]
    /\ sent = [c \in Conns |-> <<>>]
    /\ b = [c \in Conns |-> NoSlice]
    /\ nreads = 0
    /\ exec = <<>>
    /\ staged = <<>>
    /\ logged = <<>>
    /\ startpc = "ReadCommand"
    /\ startrd = NewReader
    /\ startoff = 0
    /\ startcur = NoCommand
    /\ read = 0
    /\ ReaderIdle

ReplayNext ==
    \/ StartReadCommand
    \/ StartRead
    \/ StartEOF
    \/ StartDispatch

ReplaySpec == ReplayInit /\ [][ReplayNext]_vars

\* what the source of the reader fed in pieces holds: one of these frames,
\* or two of them end to end
InlineQuoted == <<"s", "e", "t", SP, QT, "a", SP, "b", QT, SP, "1", CR, LF>>
InlineOpenQuote == <<"g", "e", "t", SP, QT, "x", CR, LF>>
InlineQuoteThenSpace == <<QT, "a", SP, QT, LF>>
EmptyCRLF == <<CR, LF>>
EmptyLF == <<LF>>
FrameNoDollar == <<"*", "1", CR, LF, "x">>
FrameBadTerminator == <<"*", "1", CR, LF, "$", "1", CR, LF, "x", "y", "z">>
FrameHalf == <<"s", "e">>
\* bulk lengths at the limits of int and of uint64
FrameLenMaxUint == <<"*", "1", CR, LF, "$">> \o Itoa(MaxUint) \o CRLF
FrameLenMaxInt == <<"*", "1", CR, LF, "$">> \o Itoa(MaxInt) \o CRLF

ReaderFrames == {ChunkSet, ChunkGet, ChunkSetUpper, InlineQuoted, InlineOpenQuote,
                 InlineQuoteThenSpace, EmptyCRLF, EmptyLF, ChunkMalformed, FrameNoDollar,
                 FrameBadTerminator, FrameHalf, FrameNoCommand, FrameLenMaxUint,
                 FrameLenMaxInt}

ReaderInputs == ReaderFrames \cup {f \o g : f, g \in ReaderFrames}

\* a CommandReader over a source that delivers ReaderInputs in pieces
ReaderInit ==
    /\ rinput \in ReaderInputs
    /\ rpos = 0
    /\ rpieces = 0
    /\ rrd = NewReader
    /\ rout = <<>>
    /\ rmsg = <<>>
    /\ rpc = "ReadCommand"
    /\ ServerInit
    /\ ReplayDone

ReaderNext ==
    \/ RdReadCommand
    \/ RdRead
    \/ RdEOF

ReaderSpec == ReaderInit /\ [][ReaderNext]_vars

\* ------------------------------------------------------------ the claims

RECURSIVE ConcatRaws(_)
ConcatRaws(cmds) == IF cmds = <<>> THEN <<>> ELSE Head(cmds).raw \o ConcatRaws(Tail(cmds))

ArgsOf(results) == [k \in 1..Len(results) |-> results[k].args]

\* the connections inside lines 178-187, between taking and releasing the
\* keyspace lock for a handler, by the class of the command
InHandler(c) == pc[c] \in {"Func", "AofbufWrite", "Unlock", "RUnlock"}
WriteHandlers == {c \in Conns : InHandler(c) /\ commandTable[ToLower(cur[c].args[1])].Write}
ReadHandlers == {c \in Conns : InHandler(c) /\ ~commandTable[ToLower(cur[c].args[1])].Write}

\* C1: at any instant either read-classified handlers (any number of them)
\* or exactly one write-classified handler are executing, never both.
ReadersOrOneWriter ==
    /\ Cardinality(WriteHandlers) <= 1
    /\ WriteHandlers # {} => ReadHandlers = {}
    /\ \A c \in WriteHandlers : mu.writer = {c}
    /\ \A c \in ReadHandlers : c \in mu.readers

\* a write handler is executing while another connection waits for the lock
WriterKeepsOthersOut ==
    \E c \in WriteHandlers : \E d \in Conns \ {c} : pc[d] \in {"RLock", "Lock"}

\* two read handlers are executing at once
ReadersTogether == Cardinality(ReadHandlers) >= 2

\* C2: the flushes reach the log file in the order in which their commands
\* executed under the keyspace lock: the bytes of the commands written so
\* far are the first bytes of the commands executed, in that order.
LogInExecutionOrder == IsPrefix(ConcatRaws(logged), ConcatRaws(exec))

\* every executed write command has been staged, drained and written
Quiescent ==
    /\ Len(staged) = Len(exec)
    /\ aoflen = 0
    /\ \A c \in Conns : b[c].len = 0 /\ pc[c] \notin {"FlushUnlock", "AofmuLock", "AofWrite"}

\* C3: replaying the log the live connections wrote, from an empty
\* keyspace, ends normally with the keyspace the live server holds.
ReplayReproducesLive ==
    Quiescent => Replay(aof).end = "Listen" /\ Replay(aof).keys = keys

\* C4: a byte sequence delivered in pieces yields the same argument lists,
\* and the same end (end of input, the same protocol error, a panic), as
\* the sequence delivered in one Read.
PiecesDecodeAsWhole ==
    LET one == ReadAll(NewReader, rinput, <<>>)
    IN  /\ IsPrefix(ArgsOf(rout), ArgsOf(one.out))
        /\ rpc \in {"EOF", "err", "panic"} =>
              /\ ArgsOf(rout) = ArgsOf(one.out)
              /\ rpc = one.end
              /\ rmsg = one.msg

\* a request cut inside a command has been decoded after three Reads
DecodedFromPieces ==
    /\ rpieces = 3
    /\ rpc = "EOF"
    /\ rinput = ChunkSet \o ChunkGet
    /\ ArgsOf(rout) = <<<<NameSet, <<"x">>, <<"1">>>>, <<NameGet, <<"x">>>>>>
    /\ rrd.copied

\* C5: the inline line  set "a b" 1  yields the arguments set, a b, 1.
QuotedTokenKeptWhole ==
    \A k \in 1..Len(rout) :
        rout[k].raw = InlineQuoted =>
            rout[k].args = <<NameSet, <<"a", SP, "b">>, <<"1">>>>

\* the buffer as one multibulk request of one argument whose length header
\* is complete: the declared length and the bytes buffered after the header
OneBulkHeader(buf) ==
    LET k == FirstLF(buf, 5)
    IN  IF /\ Len(buf) > 5
           /\ Slice(buf, 0, 5) = <<"*", "1", CR, LF, "$">>
           /\ k < Len(buf)
           /\ At(buf, k - 1) = CR
           /\ ParseUint(Slice(buf, 5, k - 1)).ok
        THEN [has |-> TRUE, len |-> ParseUint(Slice(buf, 5, k - 1)).val,
              after |-> Len(buf) - (k + 1)]
        ELSE [has |-> FALSE, len |-> 0, after |-> 0]

\* C6: while fewer than len+2 bytes are buffered after a bulk's length
\* header, the parser asks for more data: no error, no failure, and the
\* buffer untouched.
BulkWaitsForItsBytes ==
    (rrd.buf # <<>> /\ OneBulkHeader(rrd.buf).has
        /\ OneBulkHeader(rrd.buf).after < OneBulkHeader(rrd.buf).len + 2)
      => /\ readBufferedCommand(rrd.buf).kind = "more"
         /\ ReadCommandBuffered(rrd).rd.buf = rrd.buf

\* what handleConn leaves alone when it only answers
KeyspaceAndLogUnchanged ==
    /\ keys' = keys
    /\ aofmem' = aofmem
    /\ aoflen' = aoflen
    /\ aof' = aof
    /\ exec' = exec
    /\ staged' = staged

\* C7: a malformed frame is answered with one error reply, Protocol error:
\* and the fault, the connection is then closed, and the keyspace, the
\* staging buffer and the log file stay as they were.
ProtocolErrorRepliesAndCloses ==
    /\ readBufferedCommand(ChunkMalformed) = ProtoErr(InvalidBulkLength, FALSE)
    /\ readBufferedCommand(FrameNoDollar) = ProtoErr(ExpectedDollar("x"), FALSE)
    /\ readBufferedCommand(InlineOpenQuote) = ProtoErr(UnbalancedQuotes, TRUE)
    /\ [][\A c \in Conns :
            /\ (/\ pc[c] = "ReadCommand"
                /\ ReadCommandBuffered(rd[c]).kind = "err"
                /\ <<pc[c], wr[c]>>' # <<pc[c], wr[c]>>)
               => /\ wr'[c] = Append(wr[c],
                        ReplyError(<<"Protocol error: ">> \o ReadCommandBuffered(rd[c]).msg))
                  /\ pc'[c] = "Return"
                  /\ KeyspaceAndLogUnchanged
            /\ (pc[c] = "Return" /\ pc'[c] # "Return")
               => /\ pc'[c] = "Closed"
                  /\ sent'[c] \in {sent[c], sent[c] \o wr[c]}
                  /\ KeyspaceAndLogUnchanged]_vars

\* a connection that sent the malformed frame got the error reply and is
\* closed, with nothing in the keyspace or the log
MalformedFrameAnswered ==
    \E c \in Conns :
        /\ pc[c] = "Closed"
        /\ sent[c] = <<ReplyError(<<"Protocol error: ", "invalid bulk length">>)>>
        /\ rd[c].buf = ChunkMalformed
        /\ keys = NoKeys
        /\ aof = <<>>

QuitNames == {NameQuit, <<"Q", "u", "i", "t">>}
PingNames == {NamePing, <<"P", "I", "N", "G">>}

\* C8: quit, ping (in any letter case) and a name the registry does not
\* hold are answered without taking the keyspace lock, without touching the
\* keyspace, the staging buffer or the log; after ping and after an unknown
\* name the loop goes on; only write commands are ever staged.
PseudoCommandsTakeNoLock ==
    /\ [](\A k \in 1..Len(staged) :
            ToLower(readBufferedCommand(staged[k].raw).args[1]) \in {NameSet, NameDel})
    /\ [][\A c \in Conns :
            (pc[c] = "Dispatch" /\ pc'[c] # "Dispatch") =>
                LET name == cur[c].args[1]
                IN  /\ name \in QuitNames =>
                          /\ wr'[c] = Append(wr[c], ReplyString(<<"OK">>))
                          /\ pc'[c] = "Return"
                          /\ mu' = mu
                          /\ KeyspaceAndLogUnchanged
                    /\ name \in PingNames =>
                          /\ wr'[c] = Append(wr[c], ReplyString(<<"PONG">>))
                          /\ pc'[c] \in {"FlushLock", "ReadCommand"}
                          /\ mu' = mu
                          /\ KeyspaceAndLogUnchanged
                    /\ (name \notin QuitNames \cup PingNames
                            /\ ToLower(name) \notin DOMAIN commandTable) =>
                          /\ wr'[c] = Append(wr[c], ReplyError(UnknownCommand(name)))
                          /\ pc'[c] \in {"FlushLock", "ReadCommand"}
                          /\ mu' = mu
                          /\ KeyspaceAndLogUnchanged]_vars

\* a connection was answered PONG, unknown command and OK, and closed, with
\* nothing staged or logged
PseudoCommandsAnswered ==
    \E c \in Conns :
        /\ pc[c] = "Closed"
        /\ sent[c] = <<ReplyString(<<"PONG">>),
                       ReplyError(<<"unknown command '", "f", "o", "o", "'">>),
                       ReplyString(<<"OK">>)>>
        /\ staged = <<>>
        /\ aof = <<>>
        /\ keys = NoKeys

\* C9: Start comes to listen only over a log it decoded to the last byte:
\* a log with malformed or incomplete command bytes ends the process.
ReplayDecodesWholeLog == startpc = "Listen" => startrd.buf = <<>>

\* C10: a write command's bytes are appended to the staging buffer under
\* the exclusive lock its handler ran under, so the buffer holds the
\* commands in the order in which their handlers executed.
StagedInExecutionOrder ==
    /\ IsPrefix(staged, exec)
    /\ Len(exec) - Len(staged) <= 1
    /\ \A c \in Conns : pc[c] \in {"AofbufWrite", "Unlock"} => mu.writer = {c}
    /\ \E k \in 0..Len(staged) :
          AofbufBytes(aofmem, aoflen) = ConcatRaws(SubSeq(staged, k + 1, Len(staged)))

\* the staging buffer holds the commands of two connections
TwoConnectionsStaged ==
    /\ Len(staged) = 2
    /\ staged[1].conn # staged[2].conn
    /\ AofbufBytes(aofmem, aoflen) = staged[1].raw \o staged[2].raw

\* C11: a flush swaps the staging buffer out atomically: the file holds
\* exactly the bytes of the slices drained and written, as they were when
\* they were drained, and the buffer is empty after the drain.
FlushWritesDrainedBytes ==
    /\ aof = ConcatRaws(logged)
    /\ \A c \in Conns : pc[c] = "FlushUnlock" => aoflen = 0

\* who holds the keyspace lock, in either mode
MuHolders == mu.writer \cup mu.readers

\* C12: nobody holds the keyspace lock and the file lock at once: the file
\* is written, and synced, under the file lock alone, by a holder that
\* waits for nothing, and whoever holds the keyspace lock waits for no lock.
LocksNeverHeldTogether ==
    /\ MuHolders \cap aofmu.conns = {}
    /\ \A c \in Conns : pc[c] = "AofWrite" => aofmu.conns = {c} /\ c \notin MuHolders
    /\ \A c \in Conns : pc[c] \in {"AofmuLock", "Lock", "RLock", "FlushLock"}
                            => c \notin MuHolders \cup aofmu.conns
    /\ syncpc = "Sync" <=> aofmu.sync
    /\ ~crashed => \A c \in aofmu.conns : pc[c] = "AofWrite"

\* a connection writes the file while another reads the keyspace
FileWrittenWhileKeyspaceRead ==
    \E c \in Conns : \E d \in Conns \ {c} :
        /\ pc[c] = "AofWrite"
        /\ d \in mu.readers
        /\ pc[d] = "Func"

\* a command in inline framing: its first byte is not the multibulk marker
IsInline(raw) == raw # <<>> /\ raw[1] # "*"

\* C13: ReadCommand returns flush = true with every inline command, and
\* with every command that leaves the reader's buffer empty.
InlineAlwaysFlushes ==
    /\ \A k \in 1..Len(rout) : IsInline(rout[k].raw) => rout[k].flush
    /\ (rout # <<>> /\ rpc = "ReadCommand" /\ rrd.buf = <<>>) => rout[Len(rout)].flush

\* C14: a command returned with the flush flag set, an empty one included,
\* is followed by the drain of the staging buffer and the flush of the
\* connection's writer before the next ReadCommand; a failed flush of the
\* writer ends the connection.
FlushBeforeNextCommand ==
    [][\A c \in Conns :
          /\ (/\ pc[c] = "ReadCommand"
              /\ rd'[c] # rd[c]
              /\ ReadCommandBuffered(rd[c]).kind = "cmd"
              /\ ReadCommandBuffered(rd[c]).flush)
             => pc'[c] # "ReadCommand"
          /\ (pc[c] \notin {"ReadCommand", "Read"} /\ pc'[c] = "ReadCommand" /\ cur[c].flush)
             => /\ pc[c] = "WrFlush"
                /\ sent'[c] = sent[c] \o wr[c]
                /\ wr'[c] = <<>>
          /\ (pc[c] # "WrFlush" /\ pc'[c] = "WrFlush")
             => pc[c] \in {"FlushUnlock", "AofWrite"} /\ b'[c] = NoSlice
          /\ (pc[c] # "FlushUnlock" /\ pc'[c] = "FlushUnlock") => aoflen' = 0
          /\ (pc[c] = "WrFlush" /\ pc'[c] \notin {"WrFlush", "ReadCommand"})
             => pc'[c] = "ReturnFailed"]_vars

\* C15: the replay dispatches without the keyspace lock and without
\* logging again: the staging buffer stays empty, the file stays as it
\* was, and the count reported is the number of commands decoded.
ReplayTakesNoLockAndLogsNothing ==
    /\ [](/\ aoflen = 0
          /\ aofmem = <<>>
          /\ staged = <<>>
          /\ mu = [writer |-> {}, readers |-> {}]
          /\ read <= Len(ReadAll(NewReader, aof, <<>>).out)
          /\ startpc = "Listen" => read = Len(ReadAll(NewReader, aof, <<>>).out))
    /\ [][aof' = aof /\ mu' = mu /\ aoflen' = aoflen]_vars

\* the replay of a set and of an unknown command came to listen, counting
\* both, with the key set and nothing staged
ReplayedTwoCommands ==
    /\ startpc = "Listen"
    /\ aof = ChunkSet \o FrameUnknown
    /\ read = 2
    /\ keys = SetKey(NoKeys, <<"x">>, <<"1">>)
    /\ aoflen = 0

\* C16: an empty inline line, ended by CRLF or by a bare LF, decodes to an
\* empty argument list that consumes just its terminator, and the bytes
\* after it are decoded as the next command.
EmptyLineIsEmptyCommand ==
    /\ (rinput # <<>> /\ rinput[1] = LF) =>
          /\ rout # <<>> => rout[1].raw = <<LF>> /\ rout[1].args = <<>>
          /\ rpc = "EOF" => rout # <<>>
    /\ (Len(rinput) >= 2 /\ SubSeq(rinput, 1, 2) = CRLF) =>
          /\ rout # <<>> => rout[1].raw = CRLF /\ rout[1].args = <<>>
          /\ rpc = "EOF" => rout # <<>>

\* C17: a multibulk request is returned as a command only if every bulk
\* argument is followed by CR LF: its raw bytes are the wire form of its
\* arguments (the inputs write their lengths without leading zeros).
BulkMustEndInCRLF ==
    \A k \in 1..Len(rout) :
        (~IsInline(rout[k].raw) /\ rout[k].args # <<>>)
            => rout[k].raw = Multibulk(rout[k].args)

\* C18: the raw values returned so far, end to end, and after them the
\* bytes still buffered, are the bytes the Reads delivered so far: each raw
\* value is the span of input its command consumed.
RawIsTheConsumedSpan ==
    ConcatRaws(rout) \o rrd.buf = Slice(rinput, 0, rpos)

\* two commands were returned from a buffer that the reader had to copy
\* between Reads, and their raw values make up the whole input
RawSpansAcrossCopy ==
    /\ rinput = ChunkGet \o ChunkSet
    /\ rpieces = 3
    /\ rrd.copied
    /\ Len(rout) = 2
    /\ rout[1].raw = ChunkGet
    /\ rout[2].raw = ChunkSet

\* C19: a handler that waits for bytes from its socket has flushed the
\* replies to all the commands it executed: its writer holds nothing.
NoReplyPendingWhileReading ==
    \A c \in Conns : pc[c] = "Read" => wr[c] = <<>>

\* the connections whose commands have bytes in the staging buffer
StagedOwners == {StagedInBuffer(staged, aoflen)[k].conn :
                    k \in 1..Len(StagedInBuffer(staged, aoflen))}

\* C20: a handler that has terminated, or that waits for bytes from its
\* socket, has left none of its commands' bytes in the staging buffer.
NothingStagedWhenIdle ==
    \A c \in Conns :
        pc[c] \in {"Read", "Return", "ReturnFailed", "Closed"} => c \notin StagedOwners

====
